---- MODULE Spec2Model ----
(***************************************************************************)
(* Model of the phrase1 message pipeline of learn_k8s:                     *)
(*   API   (POST /enqueue, GET /healthz)  -> Redis list (LPUSH)            *)
(*   worker (Dequeue = BRPOP loop)        -> /data/processed.log           *)
(* Texts (bodies, headers, payloads, log lines) are sequences of           *)
(* characters; a character is a one-token string.                          *)
(***************************************************************************)
EXTENDS Integers, Sequences, FiniteSets, TLC

\* ------------------------------------------------------------------ bounds
NumWorkers == 2      \* worker instances of the competing-consumers runs
MaxSolo == 1         \* worker instances of the store-failure and shutdown runs
MaxSubs == 2         \* POST /enqueue requests of a pipeline run
MaxIngest == 2       \* POST /enqueue requests of an ingestion-only run
MaxKills == 1        \* SIGKILLs of a run
MaxSignals == 1      \* SIGTERMs of a run
MaxOutages == 1      \* Queue Store outages of a run
MaxProbes == 2       \* GET /healthz requests of a run
MaxTime == 2         \* ticks of the wall clock in a run

Workers == 1..NumWorkers
Solo == 1..MaxSolo

\* ------------------------------------------------------------ text helpers
IsSpace(c) == c \in {" ", "\n", "\t"}

RECURSIVE TrimLeft(_)
TrimLeft(s) ==
  IF s = <<>> THEN <<>>
  ELSE IF IsSpace(Head(s)) THEN TrimLeft(Tail(s)) ELSE s

RECURSIVE TrimRight(_)
TrimRight(s) ==
  IF s = <<>> THEN <<>>
  ELSE IF IsSpace(s[Len(s)]) THEN TrimRight(SubSeq(s, 1, Len(s) - 1)) ELSE s

TrimSpaceLeft(s) == TrimLeft(s)

\* strings.TrimSpace
TrimSpace(s) == TrimRight(TrimLeft(s))

\* strings.ToLower, on the header tokens the model uses
ToLower(s) ==
  [i \in 1..Len(s) |-> IF s[i] = "Application/JSON" THEN "application/json" ELSE s[i]]

\* strings.Contains(s, "application/json")
ContainsJSON(s) == \E i \in 1..Len(s) : s[i] = "application/json"

\* ---------------------------------------------------- json.Unmarshal(body)
\* Decoding of a body into enqueueRequest{Message string `json:"message"`}.
\* The scanner covers flat JSON: a top-level object of string / number /
\* null members, or a top-level string, number or null.
Quote == "\""

KeyMatches(key) == key \in {<<"message">>, <<"Message">>}

JStart == [st |-> "start", key |-> <<>>, val |-> <<>>, Message |-> <<>>, terr |-> FALSE]

JStep(s, c) ==
  CASE s.st = "start" ->
         IF IsSpace(c) THEN s
         ELSE IF c = "{" THEN [s EXCEPT !.st = "obj"]
         ELSE IF c = Quote THEN [s EXCEPT !.st = "tstr"]
         ELSE IF c = "5" THEN [s EXCEPT !.st = "endScalar"]
         ELSE IF c = "null" THEN [s EXCEPT !.st = "endNull"]
         ELSE [s EXCEPT !.st = "err"]
    [] s.st = "tstr" ->
         IF c = Quote THEN [s EXCEPT !.st = "endScalar"]
         ELSE IF c \in {"\n", "\t"} THEN [s EXCEPT !.st = "err"]
         ELSE s
    [] s.st = "obj" ->
         IF IsSpace(c) THEN s
         ELSE IF c = "}" THEN [s EXCEPT !.st = "endObj"]
         ELSE IF c = Quote THEN [s EXCEPT !.st = "key", !.key = <<>>]
         ELSE [s EXCEPT !.st = "err"]
    [] s.st = "key" ->
         IF c = Quote THEN [s EXCEPT !.st = "colon"]
         ELSE IF c \in {"\n", "\t"} THEN [s EXCEPT !.st = "err"]
         ELSE [s EXCEPT !.key = Append(s.key, c)]
    [] s.st = "colon" ->
         IF IsSpace(c) THEN s
         ELSE IF c = ":" THEN [s EXCEPT !.st = "value"]
         ELSE [s EXCEPT !.st = "err"]
    [] s.st = "value" ->
         IF IsSpace(c) THEN s
         ELSE IF c = Quote THEN [s EXCEPT !.st = "sval", !.val = <<>>]
         ELSE IF c = "5" THEN [s EXCEPT !.st = "more",
                                        !.terr = s.terr \/ KeyMatches(s.key)]
         ELSE IF c = "null" THEN [s EXCEPT !.st = "more"]
         ELSE [s EXCEPT !.st = "err"]
    [] s.st = "sval" ->
         IF c = Quote THEN [s EXCEPT !.st = "more",
                                     !.Message = IF KeyMatches(s.key) THEN s.val
                                                 ELSE s.Message]
         ELSE IF c \in {"\n", "\t"} THEN [s EXCEPT !.st = "err"]
         ELSE [s EXCEPT !.val = Append(s.val, c)]
    [] s.st = "more" ->
         IF IsSpace(c) THEN s
         ELSE IF c = "," THEN [s EXCEPT !.st = "next"]
         ELSE IF c = "}" THEN [s EXCEPT !.st = "endObj"]
         ELSE [s EXCEPT !.st = "err"]
    [] s.st = "next" ->
         IF IsSpace(c) THEN s
         ELSE IF c = Quote THEN [s EXCEPT !.st = "key", !.key = <<>>]
         ELSE [s EXCEPT !.st = "err"]
    [] s.st \in {"endObj", "endNull", "endScalar"} ->
         IF IsSpace(c) THEN s ELSE [s EXCEPT !.st = "err"]
    [] OTHER -> s

RECURSIVE JScan(_, _)
JScan(s, body) ==
  IF body = <<>> THEN s ELSE JScan(JStep(s, Head(body)), Tail(body))

\* json.Unmarshal(body, &req): err is TRUE for a syntax error (req untouched)
\* and for a value of the wrong type; null decodes as a no-op.
Unmarshal(body) ==
  LET s == JScan(JStart, body) IN
  IF s.st \in {"endObj", "endNull"}
    THEN [err |-> s.terr, Message |-> s.Message]
    ELSE [err |-> TRUE, Message |-> <<>>]

\* ------------------------------------------------- POST /enqueue, the text
\* lines 73-79 of the handler: the message that is validated and enqueued
NormalizeNoFallback(body, ctype) ==
  IF ContainsJSON(ToLower(ctype))
    THEN TrimSpace(Unmarshal(body).Message)
    ELSE TrimSpace(body)

NormalizeFallbackOnEmpty(body, ctype) ==
  LET msg == TrimSpace(body) IN
  IF ContainsJSON(ToLower(ctype))
    THEN LET req == Unmarshal(body) IN
         IF ~req.err /\ TrimSpace(req.Message) # <<>>
           THEN TrimSpace(req.Message)
           ELSE msg
    ELSE msg

Normalize(body, ctype) ==
  LET msg == TrimSpace(body) IN
  IF ContainsJSON(ToLower(ctype))
    THEN LET req == Unmarshal(body) IN
         IF ~req.err THEN TrimSpace(req.Message) ELSE msg
    ELSE msg

\* ------------------------------------------------------------------ inputs
Q == Quote
TextPlain == <<"text/plain">>
AppJSON == <<"application/json">>
AppJSONCharset == <<"Application/JSON", "; charset=utf-8">>

JSONMessage(text) == <<"{", Q, "message", Q, ":", Q>> \o text \o <<Q, "}">>

\* the requests of the README's enqueue examples, shortened
PipeInputs ==
  { [body |-> <<"h", "i">>, ctype |-> TextPlain],
    [body |-> JSONMessage(<<" ", "h">>), ctype |-> AppJSON],
    [body |-> <<" ">>, ctype |-> TextPlain] }

Bodies ==
  { <<>>,
    <<" ", "\n">>,
    <<" ", "h", " ", "i", "\n">>,
    JSONMessage(<<"h">>),
    <<" ">> \o JSONMessage(<<" ", "h", " ">>) \o <<"\n">>,
    JSONMessage(<<" ">>),
    JSONMessage(<<>>),
    <<"{", "}">>,
    <<"{", Q, "other", Q, ":", Q, "h", Q, "}">>,
    <<"{", Q, "message", Q, ":", "5", "}">>,
    <<"{", Q, "message", Q, ":", Q, "h", Q>>,
    <<"null">>,
    <<Q, "h", Q>>,
    <<"{", Q, "Message", Q, ":", Q, "i", Q, ",", Q, "other", Q, ":", "null", "}">> }

CTypes == {TextPlain, AppJSON, AppJSONCharset}

\* the request of the README's first example
PlainInputs == { [body |-> <<"h", "i">>, ctype |-> TextPlain] }

\* plain-text requests whose message has a line break or the separator of
\* the sink's lines inside
LineInputs ==
  { [body |-> <<"h", "i">>, ctype |-> TextPlain],
    [body |-> <<"a", "\n", "b">>, ctype |-> TextPlain],
    [body |-> <<"a", " | ", "b", "\n">>, ctype |-> TextPlain] }

\* one-line messages sent with white space around them, as plain text and
\* as JSON, with a body that does not decode and with empty messages
TrimInputs ==
  { [body |-> <<" ", "h", " ", "i", "\n">>, ctype |-> TextPlain],
    [body |-> <<"\n", "a", " | ", "b", "\t">>, ctype |-> TextPlain],
    [body |-> <<" ">> \o JSONMessage(<<" ", "h", " ">>) \o <<"\n">>, ctype |-> AppJSON],
    [body |-> <<"{", Q, "message", Q, ":", Q, "h", Q>>, ctype |-> AppJSONCharset],
    [body |-> JSONMessage(<<" ">>), ctype |-> AppJSON],
    [body |-> <<"\t">>, ctype |-> TextPlain] }

IngestInputs == [body : Bodies, ctype : CTypes]

\* time.Time.Format(time.RFC3339Nano) of the model's clock values
Format(t) == <<"T0", "T1", "T2", "T3">>[t + 1]

\* ------------------------------------------------------------------- state
VARIABLES
  queue,      \* the Redis list, head (LPUSH end) first; entries carry the
              \* number of the submission that pushed them
  sink,       \* /data/processed.log, as its sequence of lines
  recs,       \* one entry per successful appendLine: submission, worker,
              \* payload and the text written
  deliv,      \* one entry per message Dequeue returned: submission, worker
  killed,     \* the submissions whose message a worker held when it was killed
  dropped,    \* the submissions whose record appendLine failed to write
  subs,       \* one entry per handled POST /enqueue: response and effect
  last,       \* the request of the latest POST /enqueue
  health,     \* GET /healthz: requests handled, the latest probe and answer
  wpc,        \* per worker: position in main's loop / Dequeue
  held,       \* per worker: the message popped and not yet appended
  cancelled,  \* per worker: ctx has been cancelled (SIGINT/SIGTERM seen)
  redisUp,    \* the Queue Store is reachable
  kills, signals, outages,   \* numbers of SIGKILLs, SIGTERMs and outages so far
  now         \* the wall clock

vars == <<queue, sink, recs, deliv, killed, dropped, subs, last, health, wpc, held,
          cancelled, redisUp,
          kills, signals, outages, now>>

NoMsg == [id |-> 0, msg |-> <<>>, line |-> <<>>, got |-> 0, done |-> 0]
NoReq == [body |-> <<>>, ctype |-> <<>>]
NoProbe == [n |-> 0, pong |-> FALSE, status |-> 0]

\* the stack is up with the worker instances of `active` running
InitWith(active) ==
  /\ queue = <<>>
  /\ sink = <<>>
  /\ recs = <<>>
  /\ deliv = <<>>
  /\ killed = {}
  /\ dropped = {}
  /\ subs = <<>>
  /\ last = NoReq
  /\ health = NoProbe
  /\ wpc = [w \in Workers |-> IF w \in active THEN "dequeue" ELSE "dead"]
  /\ held = [w \in Workers |-> NoMsg]
  /\ cancelled = [w \in Workers |-> FALSE]
  /\ redisUp = TRUE
  /\ kills = 0
  /\ signals = 0
  /\ outages = 0
  /\ now = 0

Init == InitWith(Workers)

workerVars == <<wpc, held, cancelled, kills, signals, deliv, killed, dropped>>
sinkVars == <<sink, recs>>
apiVars == <<subs, last, health>>

\* ------------------------------------------------------------ POST /enqueue
\* RedisQueue.Enqueue: LPUSH puts the payload at the head of the list
LPushUnique(q, id, payload) ==
  IF \E k \in DOMAIN q : q[k].msg = payload
    THEN q
    ELSE <<[id |-> id, msg |-> payload]>> \o q
RPush(q, id, payload) == q \o <<[id |-> id, msg |-> payload]>>
LPush(q, id, payload) == <<[id |-> id, msg |-> payload]>> \o q

\* env("QUEUE_NAME", "messages")
QueueName == "messages"

\* the body of the 200 answer: enqueueResponse{Enqueued, Queue, Message}
EnqueueResponseNoQueue(msg) == [enqueued |-> TRUE, queue |-> "", message |-> msg]
EnqueueResponse(msg) == [enqueued |-> TRUE, queue |-> QueueName, message |-> msg]

\* the body of an http.Error answer
ErrorBody(status) ==
  [error |-> IF status = 400 THEN "message is required" ELSE "enqueue failed"]

\* one handled request: the answer (status, body) and, for the properties,
\* the normalized message, what became of the push and the store's state
Response(status, msg, enq) ==
  [status |-> status, msg |-> msg, enq |-> enq, up |-> redisUp,
   body |-> IF status = 200 THEN EnqueueResponse(msg) ELSE ErrorBody(status)]

\* the validation of lines 81-84
IsEmptyNever(msg) == FALSE
IsEmpty(msg) == msg = <<>>

\* q.Enqueue(ctx, msg) and the response that follows it.  The call ends in
\* one of three ways: the push is applied and its reply arrives in time (200);
\* the push is never applied, because the store is unreachable or the
\* deadline expires first (503); the push is applied but the deadline
\* expires, or the connection fails, before the reply arrives (503).
EnqueueIgnoreErr(id, msg, faults) ==
  \/ /\ redisUp
     /\ queue' = LPush(queue, id, msg)
     /\ subs' = Append(subs, Response(200, msg, "applied"))
  \/ /\ faults
     /\ queue' = queue
     /\ subs' = Append(subs, Response(200, msg, "noeffect"))
  \/ /\ faults
     /\ redisUp
     /\ queue' = LPush(queue, id, msg)
     /\ subs' = Append(subs, Response(503, msg, "applied"))

Enqueue(id, msg, faults) ==
  \/ /\ redisUp
     /\ queue' = LPush(queue, id, msg)
     /\ subs' = Append(subs, Response(200, msg, "applied"))
  \/ /\ faults
     /\ queue' = queue
     /\ subs' = Append(subs, Response(503, msg, "noeffect"))
  \/ /\ faults
     /\ redisUp
     /\ queue' = LPush(queue, id, msg)
     /\ subs' = Append(subs, Response(503, msg, "applied"))

\* One request, from ReadAll to the response.
Submit(max, inputs, faults) ==
  /\ Len(subs) < max
  /\ \E in \in inputs :
       LET msg == Normalize(in.body, in.ctype) IN
       /\ last' = in
       /\ IF IsEmpty(msg)
            THEN /\ subs' = Append(subs, Response(400, msg, "none"))
                 /\ queue' = queue
            ELSE Enqueue(Len(subs) + 1, msg, faults)
  /\ UNCHANGED <<sinkVars, workerVars, health, redisUp, outages, now>>

\* ------------------------------------------------------------- GET /healthz
\* rdb.Ping under a 2-second deadline: PONG can only come from a reachable
\* store, and also a reachable store may fail to answer within the deadline
PingNoDeadline == {TRUE}
Ping == IF redisUp THEN BOOLEAN ELSE {FALSE}

\* One request: 503 "redis not ready" when Ping returned an error, else 200 "ok"
Healthz ==
  /\ health.n < MaxProbes
  /\ \E pong \in Ping :
       health' = [n |-> health.n + 1, pong |-> pong,
                  status |-> IF pong THEN 200 ELSE 503]
  /\ UNCHANGED <<queue, sinkVars, subs, last, workerVars, redisUp, outages, now>>

\* ----------------------------------------------------------- the wall clock
\* time passes: while a worker sleeps its processing delay, waits in BRPOP
\* or writes, and between the requests
Tick ==
  /\ now < MaxTime
  /\ now' = now + 1
  /\ UNCHANGED <<queue, sinkVars, apiVars, workerVars, redisUp, outages>>

\* ------------------------------------------------------------ Queue Store
RedisDown ==
  /\ redisUp
  /\ outages < MaxOutages
  /\ redisUp' = FALSE
  /\ outages' = outages + 1
  /\ UNCHANGED <<queue, sinkVars, apiVars, workerVars, now>>

RedisUp ==
  /\ ~redisUp
  /\ redisUp' = TRUE
  /\ UNCHANGED <<queue, sinkVars, apiVars, workerVars, outages, now>>

\* --------------------------------------------------------------- the worker
\* the text written by fmt.Fprintln(f, line), cut into the lines of the file
RECURSIVE SplitLines(_, _)
SplitLines(cur, text) ==
  IF text = <<>> THEN (IF cur = <<>> THEN <<>> ELSE <<cur>>)
  ELSE IF Head(text) = "\n" THEN <<cur>> \o SplitLines(<<>>, Tail(text))
  ELSE SplitLines(Append(cur, Head(text)), Tail(text))

Fprintln(line) == SplitLines(<<>>, line \o <<"\n">>)

\* fmt.Sprintf("%s | %s", time.Now().Format(time.RFC3339Nano), msg)
SprintfFirstChar(t, msg) == <<Format(t), " | ", Head(msg)>>
Sprintf(t, msg) == <<Format(t), " | ">> \o msg

\* BRPOP takes the entry at the tail of the list
BRPopEntry(q) == q[Len(q)]
BRPopRestPeek(q) == q
BRPopRestTwo(q) == SubSeq(q, 1, Len(q) - 2)
BRPopRest(q) == SubSeq(q, 1, Len(q) - 1)

\* main's test of the error Dequeue returned: break when ctx is done,
\* otherwise log, sleep one second and continue
AfterErrorFatal(w) == "terminated"
AfterError(w) == IF cancelled[w] THEN "terminated" ELSE "backoff"

DequeueCheckNoSelect(w) ==
  /\ wpc[w] = "dequeue"
  /\ wpc' = [wpc EXCEPT ![w] = "brpop"]
  /\ UNCHANGED <<queue, sinkVars, apiVars, held, cancelled, kills, signals,
                 deliv, killed, dropped, redisUp, outages, now>>

\* Dequeue, top of its loop: the select on ctx.Done()
DequeueCheck(w) ==
  /\ wpc[w] = "dequeue"
  /\ wpc' = [wpc EXCEPT ![w] = IF cancelled[w] THEN "terminated" ELSE "brpop"]
  /\ UNCHANGED <<queue, sinkVars, apiVars, held, cancelled, kills, signals,
                 deliv, killed, dropped, redisUp, outages, now>>

\* BRPOP answers with [queueName, payload]: Dequeue returns the payload
BRPopMessage(w) ==
  /\ wpc[w] = "brpop"
  /\ redisUp
  /\ queue # <<>>
  /\ queue' = BRPopRest(queue)
  /\ held' = [held EXCEPT ![w] = [id |-> BRPopEntry(queue).id,
                                   msg |-> BRPopEntry(queue).msg,
                                   line |-> <<>>, got |-> now, done |-> 0]]
  /\ deliv' = Append(deliv, [id |-> BRPopEntry(queue).id, w |-> w])
  /\ wpc' = [wpc EXCEPT ![w] = "process"]
  /\ UNCHANGED <<sinkVars, apiVars, cancelled, kills, signals, killed, dropped,
                 redisUp, outages, now>>

BRPopTimeoutBackoff(w) ==
  /\ wpc[w] = "brpop"
  /\ redisUp
  /\ queue = <<>>
  /\ wpc' = [wpc EXCEPT ![w] = "backoff"]
  /\ UNCHANGED <<queue, sinkVars, apiVars, held, cancelled, kills, signals,
                 deliv, killed, dropped, redisUp, outages, now>>

\* BRPOP answers redis.Nil after its 5 seconds: Dequeue loops
BRPopTimeout(w) ==
  /\ wpc[w] = "brpop"
  /\ redisUp
  /\ queue = <<>>
  /\ wpc' = [wpc EXCEPT ![w] = "dequeue"]
  /\ UNCHANGED <<queue, sinkVars, apiVars, held, cancelled, kills, signals,
                 deliv, killed, dropped, redisUp, outages, now>>

BRPopErrorSwallow(w) ==
  /\ wpc[w] = "brpop"
  /\ ~redisUp \/ cancelled[w]
  /\ wpc' = [wpc EXCEPT ![w] = "dequeue"]
  /\ UNCHANGED <<queue, sinkVars, apiVars, held, cancelled, kills, signals,
                 deliv, killed, dropped, redisUp, outages, now>>

\* BRPOP fails without having taken anything: the store is unreachable, or
\* ctx is cancelled while the call blocks
BRPopError(w) ==
  /\ wpc[w] = "brpop"
  /\ ~redisUp \/ cancelled[w]
  /\ wpc' = [wpc EXCEPT ![w] = AfterError(w)]
  /\ UNCHANGED <<queue, sinkVars, apiVars, held, cancelled, kills, signals,
                 deliv, killed, dropped, redisUp, outages, now>>

\* BRPOP fails after the store has taken the entry off the list: ctx is
\* cancelled while the reply is on its way
BRPopReplyLost(w) ==
  /\ wpc[w] = "brpop"
  /\ redisUp
  /\ queue # <<>>
  /\ cancelled[w]
  /\ queue' = BRPopRest(queue)
  /\ wpc' = [wpc EXCEPT ![w] = AfterError(w)]
  /\ UNCHANGED <<sinkVars, apiVars, held, cancelled, kills, signals,
                 deliv, killed, dropped, redisUp, outages, now>>

BackoffToBRPop(w) ==
  /\ wpc[w] = "backoff"
  /\ wpc' = [wpc EXCEPT ![w] = "brpop"]
  /\ UNCHANGED <<queue, sinkVars, apiVars, held, cancelled, kills, signals,
                 deliv, killed, dropped, redisUp, outages, now>>

\* time.Sleep(1 * time.Second); continue
Backoff(w) ==
  /\ wpc[w] = "backoff"
  /\ wpc' = [wpc EXCEPT ![w] = "dequeue"]
  /\ UNCHANGED <<queue, sinkVars, apiVars, held, cancelled, kills, signals,
                 deliv, killed, dropped, redisUp, outages, now>>

ProcessAsync(w) ==
  /\ wpc[w] = "process"
  /\ held' = [held EXCEPT ![w].line = Sprintf(now, held[w].msg)]
  /\ wpc' = [wpc EXCEPT ![w] = "dequeue"]
  /\ UNCHANGED <<queue, sinkVars, apiVars, cancelled, kills, signals,
                 deliv, killed, dropped, redisUp, outages, now>>

ProcessStampAtReceipt(w) ==
  /\ wpc[w] = "process"
  /\ held' = [held EXCEPT ![w].line = Sprintf(held[w].got, held[w].msg),
                           ![w].done = now]
  /\ wpc' = [wpc EXCEPT ![w] = "append"]
  /\ UNCHANGED <<queue, sinkVars, apiVars, cancelled, kills, signals,
                 deliv, killed, dropped, redisUp, outages, now>>

\* the processing delay has elapsed: the record is formatted with time.Now()
Process(w) ==
  /\ wpc[w] = "process"
  /\ held' = [held EXCEPT ![w].line = Sprintf(now, held[w].msg),
                           ![w].done = now]
  /\ wpc' = [wpc EXCEPT ![w] = "append"]
  /\ UNCHANGED <<queue, sinkVars, apiVars, cancelled, kills, signals,
                 deliv, killed, dropped, redisUp, outages, now>>

AppendOKSkip(w) ==
  /\ wpc[w] = "append"
  /\ held' = [held EXCEPT ![w] = NoMsg]
  /\ wpc' = [wpc EXCEPT ![w] = "dequeue"]
  /\ UNCHANGED <<queue, sinkVars, apiVars, cancelled, kills, signals,
                 deliv, killed, dropped, redisUp, outages, now>>

AppendOKTwice(w) ==
  /\ wpc[w] = "append"
  /\ sink' = sink \o Fprintln(held[w].line) \o Fprintln(held[w].line)
  /\ recs' = recs \o [k \in 1..2 |-> [id |-> held[w].id, by |-> w,
                                       msg |-> held[w].msg, line |-> held[w].line,
                                       got |-> held[w].got, done |-> held[w].done,
                                       at |-> now]]
  /\ held' = [held EXCEPT ![w] = NoMsg]
  /\ wpc' = [wpc EXCEPT ![w] = "dequeue"]
  /\ UNCHANGED <<queue, apiVars, cancelled, kills, signals, deliv, killed, dropped,
                 redisUp, outages, now>>

AppendOKRewrite(w) ==
  /\ wpc[w] = "append"
  /\ sink' = Fprintln(held[w].line)
  /\ recs' = Append(recs, [id |-> held[w].id, by |-> w, msg |-> held[w].msg,
                            line |-> held[w].line, got |-> held[w].got,
                            done |-> held[w].done, at |-> now])
  /\ held' = [held EXCEPT ![w] = NoMsg]
  /\ wpc' = [wpc EXCEPT ![w] = "dequeue"]
  /\ UNCHANGED <<queue, apiVars, cancelled, kills, signals, deliv, killed, dropped,
                 redisUp, outages, now>>

\* appendLine succeeds: the file is opened with O_APPEND and the line written
AppendOK(w) ==
  /\ wpc[w] = "append"
  /\ sink' = sink \o Fprintln(held[w].line)
  /\ recs' = Append(recs, [id |-> held[w].id, by |-> w, msg |-> held[w].msg,
                            line |-> held[w].line, got |-> held[w].got,
                            done |-> held[w].done, at |-> now])
  /\ held' = [held EXCEPT ![w] = NoMsg]
  /\ wpc' = [wpc EXCEPT ![w] = "dequeue"]
  /\ UNCHANGED <<queue, apiVars, cancelled, kills, signals, deliv, killed, dropped,
                 redisUp, outages, now>>

AppendFailRetry(w) ==
  /\ wpc[w] = "append"
  /\ dropped' = dropped \cup {held[w].id}
  /\ UNCHANGED <<queue, sinkVars, apiVars, wpc, held, cancelled, kills, signals,
                 deliv, killed, redisUp, outages, now>>

\* appendLine returns an error: it is logged and the loop goes on
AppendFail(w) ==
  /\ wpc[w] = "append"
  /\ held' = [held EXCEPT ![w] = NoMsg]
  /\ dropped' = dropped \cup {held[w].id}
  /\ wpc' = [wpc EXCEPT ![w] = "dequeue"]
  /\ UNCHANGED <<queue, sinkVars, apiVars, cancelled, kills, signals,
                 deliv, killed, redisUp, outages, now>>

SignalAbort(w) ==
  /\ wpc[w] \notin {"dead", "terminated"}
  /\ ~cancelled[w]
  /\ signals < MaxSignals
  /\ cancelled' = [cancelled EXCEPT ![w] = TRUE]
  /\ signals' = signals + 1
  /\ wpc' = [wpc EXCEPT ![w] = "terminated"]
  /\ held' = [held EXCEPT ![w] = NoMsg]
  /\ UNCHANGED <<queue, sinkVars, apiVars, kills, deliv, killed, dropped,
                 redisUp, outages, now>>

\* SIGINT / SIGTERM: the signal goroutine calls cancel()
Signal(w) ==
  /\ wpc[w] \notin {"dead", "terminated"}
  /\ ~cancelled[w]
  /\ signals < MaxSignals
  /\ cancelled' = [cancelled EXCEPT ![w] = TRUE]
  /\ signals' = signals + 1
  /\ UNCHANGED <<queue, sinkVars, apiVars, wpc, held, kills, deliv, killed, dropped,
                 redisUp, outages, now>>

KillRequeue(w) ==
  /\ wpc[w] \notin {"dead", "terminated"}
  /\ kills < MaxKills
  /\ kills' = kills + 1
  /\ wpc' = [wpc EXCEPT ![w] = "dead"]
  /\ held' = [held EXCEPT ![w] = NoMsg]
  /\ killed' = IF held[w].id # 0 THEN killed \cup {held[w].id} ELSE killed
  /\ queue' = IF held[w].id # 0
                THEN Append(queue, [id |-> held[w].id, msg |-> held[w].msg])
                ELSE queue
  /\ UNCHANGED <<sinkVars, apiVars, cancelled, signals, deliv, dropped,
                 redisUp, outages, now>>

KillFlushQueue(w) ==
  /\ wpc[w] \notin {"dead", "terminated"}
  /\ kills < MaxKills
  /\ kills' = kills + 1
  /\ wpc' = [wpc EXCEPT ![w] = "dead"]
  /\ held' = [held EXCEPT ![w] = NoMsg]
  /\ killed' = IF held[w].id # 0 THEN killed \cup {held[w].id} ELSE killed
  /\ queue' = <<>>
  /\ UNCHANGED <<sinkVars, apiVars, cancelled, signals, deliv, dropped,
                 redisUp, outages, now>>

\* docker kill -s SIGKILL: the process and what it holds in memory are gone
Kill(w) ==
  /\ wpc[w] \notin {"dead", "terminated"}
  /\ kills < MaxKills
  /\ kills' = kills + 1
  /\ wpc' = [wpc EXCEPT ![w] = "dead"]
  /\ held' = [held EXCEPT ![w] = NoMsg]
  /\ killed' = IF held[w].id # 0 THEN killed \cup {held[w].id} ELSE killed
  /\ UNCHANGED <<queue, sinkVars, apiVars, cancelled, signals, deliv, dropped,
                 redisUp, outages, now>>

RestartTruncate(w) ==
  /\ wpc[w] \in {"dead", "terminated"}
  /\ wpc' = [wpc EXCEPT ![w] = "dequeue"]
  /\ cancelled' = [cancelled EXCEPT ![w] = FALSE]
  /\ sink' = <<>>
  /\ UNCHANGED <<queue, recs, apiVars, held, kills, signals, deliv, killed, dropped,
                 redisUp, outages, now>>

\* docker compose up -d worker: a new process, a new ctx
Restart(w) ==
  /\ wpc[w] \in {"dead", "terminated"}
  /\ wpc' = [wpc EXCEPT ![w] = "dequeue"]
  /\ cancelled' = [cancelled EXCEPT ![w] = FALSE]
  /\ UNCHANGED <<queue, sinkVars, apiVars, held, kills, signals, deliv, killed, dropped,
                 redisUp, outages, now>>

\* ------------------------------------------------------------ specifications
\* the loop while nothing fails in the store and no signal arrives
WorkerRun(w) ==
  \/ DequeueCheck(w)
  \/ BRPopMessage(w)
  \/ BRPopTimeout(w)
  \/ Process(w)
  \/ AppendOK(w)
  \/ AppendFail(w)

\* the loop while nothing fails at all
WorkerOK(w) ==
  \/ DequeueCheck(w)
  \/ BRPopMessage(w)
  \/ BRPopTimeout(w)
  \/ Process(w)
  \/ AppendOK(w)

\* the loop's steps after a failed BRPOP
WorkerErr(w) ==
  \/ BRPopError(w)
  \/ BRPopReplyLost(w)
  \/ Backoff(w)

\* competing consumers, SIGKILL and restart (experiments kill-inflight and
\* scale-workers)
Next ==
  \/ Submit(MaxSubs, PipeInputs, FALSE)
  \/ \E w \in Workers : WorkerRun(w)
  \/ \E w \in Workers : Kill(w)
  \/ \E w \in Workers : Restart(w)

Spec == Init /\ [][Next]_vars

\* Queue Store outages and failed requests, no signals
StoreNext ==
  \/ Submit(MaxSubs, PipeInputs, TRUE)
  \/ RedisDown
  \/ RedisUp
  \/ \E w \in Solo : WorkerRun(w)
  \/ \E w \in Solo : BRPopError(w)
  \/ \E w \in Solo : Backoff(w)

SpecStore == InitWith(Solo) /\ [][StoreNext]_vars

\* Queue Store outages under a worker whose appends succeed and that takes
\* its next step whenever it has one; nothing is assumed about the store
\* coming back
StoreFairNext ==
  \/ Submit(MaxSubs, PlainInputs, TRUE)
  \/ RedisDown
  \/ RedisUp
  \/ \E w \in Solo : WorkerOK(w)
  \/ \E w \in Solo : BRPopError(w)
  \/ \E w \in Solo : Backoff(w)

SpecStoreFair ==
  /\ InitWith(Solo)
  /\ [][StoreFairNext]_vars
  /\ \A w \in Solo : WF_vars(WorkerOK(w) \/ BRPopError(w) \/ Backoff(w))

\* SIGTERM, with and without a Queue Store outage
ShutdownNext ==
  \/ Submit(MaxSubs, PipeInputs, FALSE)
  \/ RedisDown
  \/ RedisUp
  \/ \E w \in Solo : WorkerRun(w)
  \/ \E w \in Solo : WorkerErr(w)
  \/ \E w \in Solo : Signal(w)
  \/ \E w \in Solo : Restart(w)

SpecShutdown == InitWith(Solo) /\ [][ShutdownNext]_vars

\* SIGTERM under a worker that takes its next step whenever it has one;
\* nothing is assumed about requests, signals or the store
ShutdownFairNext ==
  \/ Submit(MaxSubs, PlainInputs, FALSE)
  \/ RedisDown
  \/ RedisUp
  \/ \E w \in Solo : WorkerOK(w)
  \/ \E w \in Solo : WorkerErr(w)
  \/ \E w \in Solo : Signal(w)

SpecShutdownFair ==
  /\ InitWith(Solo)
  /\ [][ShutdownFairNext]_vars
  /\ \A w \in Solo : WF_vars(WorkerOK(w) \/ WorkerErr(w))

\* stopping and starting of the worker container: docker kill, and docker
\* compose restart (SIGTERM, then a new process)
RestartNext ==
  \/ Submit(MaxSubs, PipeInputs, FALSE)
  \/ \E w \in Solo : WorkerOK(w)
  \/ \E w \in Solo : BRPopError(w)
  \/ \E w \in Solo : Signal(w)
  \/ \E w \in Solo : Kill(w)
  \/ \E w \in Solo : Restart(w)

SpecRestart == InitWith(Solo) /\ [][RestartNext]_vars

\* no induced failure; every running worker process keeps taking steps
LiveNext ==
  \/ Submit(MaxSubs, PipeInputs, FALSE)
  \/ \E w \in Workers : WorkerOK(w)

SpecLive ==
  Init /\ [][LiveNext]_vars /\ \A w \in Workers : WF_vars(WorkerOK(w))

\* SIGKILL and restart as the only failures; a killed worker is restarted
\* (docker compose up -d worker) and running workers keep taking steps
CrashNext ==
  \/ Submit(MaxSubs, PipeInputs, FALSE)
  \/ \E w \in Solo : WorkerOK(w)
  \/ \E w \in Solo : Kill(w)
  \/ \E w \in Solo : Restart(w)

SpecCrashFair ==
  /\ InitWith(Solo)
  /\ [][CrashNext]_vars
  /\ \A w \in Solo : WF_vars(WorkerOK(w)) /\ WF_vars(Restart(w))

\* one producer, one worker, no induced failure
FifoNext ==
  \/ Submit(MaxSubs, TrimInputs, FALSE)
  \/ WorkerOK(1)

SpecFifo == InitWith({1}) /\ [][FifoNext]_vars

\* every way a worker stops (SIGKILL, SIGTERM) and failing appends, with a
\* reachable Queue Store
LossNext ==
  \/ Submit(MaxSubs, PlainInputs, FALSE)
  \/ \E w \in Solo : WorkerRun(w)
  \/ \E w \in Solo : BRPopError(w)
  \/ \E w \in Solo : BRPopReplyLost(w)
  \/ \E w \in Solo : Signal(w)
  \/ \E w \in Solo : Kill(w)
  \/ \E w \in Solo : Restart(w)

SpecLoss == InitWith(Solo) /\ [][LossNext]_vars

\* no induced failure, with the wall clock advancing
ClockNext ==
  \/ Submit(MaxSubs, PlainInputs, FALSE)
  \/ Tick
  \/ \E w \in Solo : WorkerOK(w)

SpecClock == InitWith(Solo) /\ [][ClockNext]_vars

\* no induced failure, one worker, messages of one or more lines
LinesNext ==
  \/ Submit(MaxSubs, LineInputs, FALSE)
  \/ \E w \in Solo : WorkerOK(w)

SpecLines == InitWith(Solo) /\ [][LinesNext]_vars

\* POST /enqueue alone, over the request bodies and content types
IngestNext ==
  \/ Submit(MaxIngest, IngestInputs, TRUE)
  \/ RedisDown
  \/ RedisUp

SpecIngest == InitWith({}) /\ [][IngestNext]_vars

\* GET /healthz beside a running pipeline with Queue Store outages
HealthNext ==
  \/ Healthz
  \/ Submit(MaxSubs, PlainInputs, FALSE)
  \/ RedisDown
  \/ RedisUp
  \/ \E w \in Solo : WorkerOK(w)
  \/ \E w \in Solo : BRPopError(w)
  \/ \E w \in Solo : Backoff(w)

SpecHealth == InitWith(Solo) /\ [][HealthNext]_vars

\* --------------------------------------------------------- shared notions
Subs == DOMAIN subs
Accepted(i) == i \in Subs /\ subs[i].status = 200
InQueue(i) == \E k \in DOMAIN queue : queue[k].id = i
Held(i) == \E w \in Workers : held[w].id = i
Recorded(i) == \E k \in DOMAIN recs : recs[k].id = i
Deliveries(i) == {k \in DOMAIN deliv : deliv[k].id = i}
RecordsOf(i) == {k \in DOMAIN recs : recs[k].id = i}

\* ---------------------------------------------------------------- claims
\* C1: with two or more workers running Dequeue against one queue, under
\* every interleaving a queue entry is returned by Dequeue at most once, so
\* it reaches at most one worker and is never recorded by two workers.
C1_OneWorkerPerEntry ==
  /\ \A i \in Subs : Cardinality(Deliveries(i)) <= 1
  /\ \A k1, k2 \in DOMAIN recs :
       recs[k1].id = recs[k2].id => recs[k1].by = recs[k2].by

C1_Witness ==
  /\ \E k1, k2 \in DOMAIN deliv : deliv[k1].w # deliv[k2].w
  /\ \E k1, k2 \in DOMAIN recs : recs[k1].by # recs[k2].by

\* C2: from the empty queue and the empty sink, after N accepted submissions
\* and any sequence of pops, appends, kills and restarts,
\* processed + remaining <= N (processed = records in the sink, remaining =
\* queue length), i.e. lost = N - processed - remaining >= 0.
C2_ProcessedPlusRemaining ==
  /\ Len(recs) + Len(queue) <= Cardinality({i \in Subs : Accepted(i)})
  /\ Len(sink) = Len(recs)

C2_Witness ==
  /\ Len(subs) = 2
  /\ \A i \in Subs : Accepted(i)
  /\ kills = 1
  /\ killed # {}
  /\ \A w \in Workers : wpc[w] # "dead"
  /\ Len(recs) = 1
  /\ Len(recs) + Len(queue) < Len(subs)

\* C3: a message a worker held (Dequeue returned it, appendLine had not
\* completed) when the worker was killed is lost for good: in every later
\* state, also after the restart, it is not in the queue, not in the sink,
\* not held by any worker, and Dequeue never returns it again.
C3_KilledInFlightIsLost ==
  \A i \in killed :
    /\ ~InQueue(i)
    /\ ~Recorded(i)
    /\ ~Held(i)
    /\ Cardinality(Deliveries(i)) = 1

C3_Witness ==
  /\ killed # {}
  /\ \A w \in Workers : wpc[w] \notin {"dead", "terminated"}
  /\ \E k \in DOMAIN recs : recs[k].id \notin killed
  /\ \E k \in DOMAIN deliv : deliv[k].id \in killed /\ k < Len(deliv)

\* the payload of a line "<timestamp> | <payload>" of the sink
PayloadOf(line) == SubSeq(line, 3, Len(line))

\* submission i has exactly one record, and the sink line of that record
\* carries the payload that was accepted
ExactlyOneRecord(i) ==
  /\ Cardinality(RecordsOf(i)) = 1
  /\ \A k \in RecordsOf(i) :
       k \in DOMAIN sink /\ PayloadOf(sink[k]) = subs[i].msg

\* C4: with no induced failure (no kill, no store error, no append failure,
\* no signal) every accepted submission with non-empty payload P eventually
\* has exactly one record with payload P in the sink, and never more than one.
C4_EventuallyExactlyOneRecord ==
  /\ \A i \in 1..MaxSubs : Accepted(i) ~> ExactlyOneRecord(i)
  /\ [](\A i \in Subs : Cardinality(RecordsOf(i)) <= 1)

C4_Witness ==
  /\ Len(subs) = 2
  /\ \A i \in Subs : Accepted(i) /\ ExactlyOneRecord(i)

\* C5 as stated: every accepted message is eventually recorded at least
\* once, also in runs where a worker is killed and later restarted.
C5_AtLeastOnce ==
  \A i \in 1..MaxSubs : Accepted(i) ~> Recorded(i)

\* C5 amended: the pipeline is at-most-once.  Every accepted message is
\* recorded at most once, and it is eventually recorded unless a worker is
\* killed while holding it between pop and append.
C5_AtMostOnce ==
  /\ \A i \in 1..MaxSubs : Accepted(i) ~> (Recorded(i) \/ i \in killed)
  /\ [](\A i \in Subs : Cardinality(RecordsOf(i)) <= 1)
  /\ [](\A i \in killed : ~Recorded(i))

C5_Witness ==
  /\ killed # {}
  /\ \A w \in Solo : wpc[w] # "dead"
  /\ \E i \in Subs : Accepted(i) /\ i \notin killed /\ Recorded(i)

\* C6: a submission handled while the Queue Store is unreachable is answered
\* with a failure (503 when its payload is non-empty, never 200), and in no
\* later state is its message in the queue, held by a worker, delivered or
\* recorded.
C6_UnreachableStoreGives503 ==
  \A i \in Subs :
    ~subs[i].up =>
      /\ subs[i].status \in {400, 503}
      /\ subs[i].msg # <<>> => subs[i].status = 503
      /\ ~InQueue(i)
      /\ ~Held(i)
      /\ ~Recorded(i)
      /\ Deliveries(i) = {}

C6_Witness ==
  /\ redisUp
  /\ \E i, j \in Subs :
       /\ i < j
       /\ ~subs[i].up
       /\ subs[i].status = 503
       /\ Recorded(j)
  /\ \A w \in Solo : wpc[w] = "brpop"

\* C7: every submission answered 503, whether the deadline expired or the
\* Queue Store failed otherwise, has left no entry in the queue.
C7_NoEntryOn503 ==
  \A i \in Subs : subs[i].status = 503 => ~InQueue(i)

\* C8: a submission whose normalized payload is empty is answered 400,
\* Enqueue is not called for it and the queue holds exactly the entries the
\* other submissions pushed.
C8_EmptyPayloadRejected ==
  /\ \A i \in Subs :
       subs[i].msg = <<>> =>
         /\ subs[i].status = 400
         /\ subs[i].enq = "none"
         /\ ~InQueue(i)
  /\ Len(queue) = Cardinality({i \in Subs : subs[i].enq = "applied"})

C8_Witness ==
  /\ Len(subs) = 2
  /\ subs[1].status = 200
  /\ subs[2].status = 400
  /\ TrimSpace(last.body) # <<>>
  /\ Len(queue) = 1
  /\ queue[1].id = 1

\* the payloads the pipeline runs can accept
Payloads == {Normalize(in.body, in.ctype) : in \in PipeInputs} \ {<<>>}

CountAccepted(P) == Cardinality({i \in Subs : Accepted(i) /\ subs[i].msg = P})
CountQueued(P) == Cardinality({k \in DOMAIN queue : queue[k].msg = P})
CountHeld(P) == Cardinality({w \in Workers : held[w].id # 0 /\ held[w].msg = P})
CountSink(P) == Cardinality({k \in DOMAIN sink : PayloadOf(sink[k]) = P})

\* C9: submissions are not deduplicated.  Every accepted submission has its
\* own entry (in the queue, in a worker's hands or as a line of the sink),
\* also when another accepted submission has the same payload, and with no
\* failure two accepted submissions of payload P end as two lines of payload P.
C9_NoDeduplication ==
  /\ [](\A P \in Payloads :
          CountQueued(P) + CountHeld(P) + CountSink(P) = CountAccepted(P))
  /\ \A P \in Payloads : (CountAccepted(P) >= 2) ~> (CountSink(P) >= 2)

C9_Witness ==
  \E P \in Payloads : CountAccepted(P) = 2 /\ CountSink(P) = 2

\* what json.Unmarshal makes of the bodies that decode without error: the
\* value left in enqueueRequest.Message
Decoded ==
  { <<JSONMessage(<<"h">>), <<"h">>>>,
    << <<" ">> \o JSONMessage(<<" ", "h", " ">>) \o <<"\n">>, <<" ", "h", " ">> >>,
    <<JSONMessage(<<" ">>), <<" ">>>>,
    <<JSONMessage(<<>>), <<>>>>,
    << <<"{", "}">>, <<>> >>,
    << <<"{", Q, "other", Q, ":", Q, "h", Q, "}">>, <<>> >>,
    << <<"null">>, <<>> >>,
    << <<"{", Q, "Message", Q, ":", Q, "i", Q, ",", Q, "other", Q, ":", "null", "}">>,
       <<"i">> >> }

Decodes(body) == \E p \in Decoded : p[1] = body
FieldOf(body) ==
  IF Decodes(body) THEN (CHOOSE p \in Decoded : p[1] = body)[2] ELSE <<>>

\* the Content-Type names JSON
Structured(ctype) == ctype \in {AppJSON, AppJSONCharset}

\* C10 as stated: with a structured content type the message validated and
\* enqueued is always the trimmed message field of the body; the whole
\* trimmed body is the message only when the content type is not structured.
C10_FieldWheneverStructured ==
  Len(subs) > 0 =>
    LET msg == subs[Len(subs)].msg IN
    /\ Structured(last.ctype) => msg = TrimSpace(FieldOf(last.body))
    /\ ~Structured(last.ctype) => msg = TrimSpace(last.body)

\* C10 amended: with a structured content type and a body that decodes
\* without error, the message validated and enqueued is the trimmed message
\* field; the whole trimmed body is the message when the content type is not
\* structured or the body does not decode.
C10_FieldWhenBodyDecodes ==
  Len(subs) > 0 =>
    LET i == Len(subs)
        msg == subs[i].msg
    IN /\ Structured(last.ctype) /\ Decodes(last.body)
            => msg = TrimSpace(FieldOf(last.body))
       /\ ~Structured(last.ctype) \/ ~Decodes(last.body)
            => msg = TrimSpace(last.body)
       /\ subs[i].status = 400 <=> msg = <<>>
       /\ subs[i].enq = "applied" => queue[1] = [id |-> i, msg |-> msg]

C10_Witness ==
  /\ Len(subs) > 0
  /\ Structured(last.ctype)
  /\ ~Decodes(last.body)
  /\ subs[Len(subs)].status = 200
  /\ queue[1].msg = TrimSpace(last.body)
  /\ queue[1].msg # <<>>

\* C11: a submission is answered 200 with enqueued=true only if its push was
\* applied to the queue; the message field of the answer is exactly the text
\* of the entry that was pushed, and the queue field is the configured
\* queue name.
C11_AcceptedMeansPushed ==
  \A i \in Subs :
    subs[i].status = 200 =>
      /\ subs[i].enq = "applied"
      /\ subs[i].body.enqueued
      /\ subs[i].body.queue = QueueName
      /\ \E k \in DOMAIN queue :
           queue[k].id = i /\ queue[k].msg = subs[i].body.message

C11_Witness ==
  /\ Len(subs) = 2
  /\ subs[1].status = 503
  /\ subs[2].status = 200
  /\ subs[2].body.message # last.body
  /\ queue[1] = [id |-> 2, msg |-> subs[2].body.message]

\* C12: GET /healthz answers 200 exactly when the probe of the Queue Store
\* succeeded within its deadline and 503 otherwise, no probe succeeds against
\* an unreachable store, and the request changes neither the queue nor the
\* Result Sink.
C12_HealthzReportsProbe ==
  [][health' # health =>
       /\ health'.status = (IF health'.pong THEN 200 ELSE 503)
       /\ health'.pong => redisUp
       /\ queue' = queue
       /\ sink' = sink]_vars

C12_Witness ==
  /\ health.n = 2
  /\ health.status = 503
  /\ ~redisUp
  /\ queue # <<>>
  /\ sink # <<>>

\* C13: once a worker process has observed the cancellation of its context
\* (Dequeue or main saw ctx done: the loop is left), it starts no new pop:
\* it issues no BRPOP and takes no message, and only a newly started process
\* with a fresh context polls again.  A BRPOP is only ever issued from the
\* select at the top of Dequeue, with the context not yet cancelled.
C13_NoPopAfterCancellationObserved ==
  [][\A w \in Solo :
       /\ wpc[w] = "terminated" =>
            /\ wpc'[w] \in {"terminated", "dequeue"}
            /\ wpc'[w] = "dequeue" => ~cancelled'[w]
            /\ held'[w] = NoMsg
            /\ \A k \in DOMAIN deliv' \ DOMAIN deliv : deliv'[k].w # w
       /\ wpc[w] # "brpop" /\ wpc'[w] = "brpop" =>
            wpc[w] = "dequeue" /\ ~cancelled[w]]_vars

C13_Witness ==
  \E w \in Solo :
    /\ wpc[w] = "terminated"
    /\ cancelled[w]
    /\ redisUp
    /\ queue # <<>>
    /\ \E k \in DOMAIN deliv : deliv[k].w = w

\* C14: after SIGTERM reaches a running worker, the worker eventually is
\* Terminated, whatever its state at the signal (polling, backoff,
\* processing, appending), also when the queue never runs empty and when the
\* Queue Store stays unreachable; it starts no new BRPOP after the signal,
\* so it finishes at most the wait or the message in progress.
C14_SignalLeadsToTerminated ==
  /\ \A w \in Solo : cancelled[w] ~> (wpc[w] = "terminated")
  /\ [][\A w \in Solo :
          cancelled[w] /\ wpc[w] # "brpop" => wpc'[w] # "brpop"]_vars

C14_Witness ==
  \E w \in Solo :
    /\ wpc[w] = "terminated"
    /\ cancelled[w]
    /\ ~redisUp
    /\ queue # <<>>

\* C15: a pop that fails for another reason than the timeout never ends the
\* worker: with no shutdown requested the worker is never Terminated, after
\* every failure it sleeps the backoff and polls again, however many times
\* in a row, and when the Queue Store is reachable again for good the
\* messages left in the queue are popped and recorded.
C15_PopFailureNotFatal ==
  /\ [](\A w \in Solo : wpc[w] \notin {"terminated", "dead"})
  /\ \A w \in Solo : (wpc[w] = "backoff") ~> (wpc[w] = "brpop")
  /\ <>[]redisUp =>
       \A i \in 1..MaxSubs : InQueue(i) ~> Recorded(i)

C15_Witness ==
  \E w \in Solo :
    /\ wpc[w] = "backoff"
    /\ ~redisUp
    /\ queue # <<>>
    /\ recs # <<>>

\* C16: when appendLine fails, the record is not written again and the
\* message is not put back: the failing step leaves the queue and the sink
\* as they are and brings the worker to the top of its loop with nothing in
\* hand; from then on the message is in neither the queue nor the sink, is
\* held by no worker and is never delivered again.  The worker goes on to
\* pop and record later messages.
C16_FailedAppendDropsMessage ==
  /\ [](\A i \in dropped :
          /\ ~InQueue(i)
          /\ ~Recorded(i)
          /\ ~Held(i)
          /\ Cardinality(Deliveries(i)) = 1)
  /\ [][dropped' # dropped =>
          /\ queue' = queue
          /\ sink' = sink
          /\ \A w \in Workers :
               held[w].id \in dropped' \ dropped =>
                 wpc'[w] = "dequeue" /\ held'[w] = NoMsg]_vars

C16_Witness ==
  \E k1, k2 \in DOMAIN deliv :
    /\ k1 < k2
    /\ deliv[k1].w = deliv[k2].w
    /\ deliv[k1].id \in dropped
    /\ Recorded(deliv[k2].id)

\* a step that stops or starts a worker container: SIGKILL or SIGTERM
\* reaches the worker, or a new worker process is started
StopOrStart ==
  \/ kills' # kills
  \/ cancelled' # cancelled
  \/ \E w \in Workers : wpc[w] \in {"dead", "terminated"} /\ wpc'[w] = "dequeue"

\* C17: a restart of a worker, abrupt (SIGKILL) or graceful (SIGTERM),
\* changes neither the Result Sink nor the queue: stopping the process and
\* starting it again leave every appended line and every entry that has not
\* been popped in place, in the same order.
C17_RestartKeepsSinkAndQueue ==
  [][StopOrStart => sink' = sink /\ queue' = queue]_vars

C17_Witness ==
  \E w \in Solo :
    /\ kills = 1
    /\ signals = 1
    /\ wpc[w] = "brpop"
    /\ ~cancelled[w]
    /\ sink # <<>>
    /\ queue # <<>>

\* C18: a message that is in the queue when a worker is killed stays there
\* and, once the worker is restarted, is eventually recorded in the Result
\* Sink: a queued message is lost only to a later SIGKILL that hits the
\* worker holding it, and after the last SIGKILL of a run every queued
\* message is eventually recorded.
C18_QueuedAtKillIsRecorded ==
  \A i \in 1..MaxSubs :
    /\ InQueue(i) ~> (Recorded(i) \/ i \in killed)
    /\ (kills = MaxKills /\ InQueue(i)) ~> Recorded(i)

\* the worker has just been killed with one message in hand and another
\* one waiting in the queue
C18_Witness ==
  /\ kills = MaxKills
  /\ killed # {}
  /\ \A w \in Solo : wpc[w] = "dead"
  /\ \E i \in Subs : InQueue(i) /\ ~Recorded(i)

IsPrefix(s, t) == Len(s) <= Len(t) /\ SubSeq(t, 1, Len(s)) = s

\* C19: the Result Sink is append-only.  Every step of every run, a kill, a
\* restart and a failed append included, leaves the lines already in the
\* sink in place and in order, so the sink of a state is a prefix of the
\* sink of every later state.
C19_SinkAppendOnly ==
  [][IsPrefix(sink, sink')]_vars

C19_Witness ==
  /\ Len(sink) = 2
  /\ kills = 1
  /\ dropped = {}
  /\ \A w \in Workers : wpc[w] \notin {"dead", "terminated"}

\* the timestamps time.Now().Format(time.RFC3339Nano) can give
Timestamps == {Format(t) : t \in 0..3}

\* C20: every successfully processed message has added exactly one line to
\* the Result Sink, of the form "<timestamp> | <payload>" with <payload>
\* the popped message exactly, for every message POST /enqueue accepts,
\* those with a line break or " | " inside included.
C20_OneLinePerMessage ==
  /\ Len(sink) = Len(recs)
  /\ \A k \in DOMAIN recs :
       k \in DOMAIN sink =>
         /\ Len(sink[k]) >= 2
         /\ sink[k][1] \in Timestamps
         /\ sink[k][2] = " | "
         /\ PayloadOf(sink[k]) = recs[k].msg

\* the messages Dequeue has returned to worker w whose append attempt has
\* not returned yet and that were not lost with a killed process
InHand(w) ==
  {k \in DOMAIN deliv :
     /\ deliv[k].w = w
     /\ ~Recorded(deliv[k].id)
     /\ deliv[k].id \notin dropped
     /\ deliv[k].id \notin killed}

\* C21: within one worker instance pop, processing and append never
\* overlap: an instance has at most one message that was popped and whose
\* append has not returned, that message is the one it holds, and while it
\* polls (select, BRPOP, backoff) it has none.
C21_OneMessageAtATime ==
  \A w \in Workers :
    /\ Cardinality(InHand(w)) <= 1
    /\ \A k \in InHand(w) : held[w].id = deliv[k].id
    /\ wpc[w] \in {"process", "append"} <=> InHand(w) # {}
    /\ wpc[w] \in {"process", "append"} <=> held[w].id # 0

C21_Witness ==
  \E w \in Workers :
    /\ wpc[w] = "append"
    /\ Cardinality(InHand(w)) = 1
    /\ \E k \in DOMAIN recs : recs[k].by = w

\* C22: with one producer whose requests are handled one after another and
\* one worker, absent failures the records are in the Result Sink in the
\* order in which their submissions were accepted: LPUSH puts an entry at
\* the head of the list and BRPOP takes the entry at the tail.
C22_SingleProducerFifo ==
  /\ Len(sink) = Len(recs)
  /\ \A k1, k2 \in DOMAIN recs : k1 < k2 => recs[k1].id < recs[k2].id
  /\ \A k \in DOMAIN recs :
       k \in DOMAIN sink => PayloadOf(sink[k]) = subs[recs[k].id].msg

C22_Witness ==
  /\ Len(sink) = 2
  /\ Accepted(1) /\ Accepted(2)
  /\ subs[1].msg # subs[2].msg
  /\ PayloadOf(sink[1]) = subs[1].msg
  /\ PayloadOf(sink[2]) = subs[2].msg

\* C23: a timeout of BRPOP is not an error.  A BRPOP on an empty queue of a
\* reachable store, with no cancellation, ends in the top of Dequeue's loop:
\* no backoff, nothing returned to main.  The cancellation is tested before
\* every BRPOP: from the top of the loop the worker polls again if and only
\* if its context is not cancelled, and otherwise leaves the loop.
C23_TimeoutIsNotAnError ==
  [][\A w \in Solo :
       /\ wpc[w] = "brpop" /\ redisUp /\ queue = <<>> /\ ~cancelled[w]
            /\ wpc'[w] # "brpop"
            => wpc'[w] = "dequeue" /\ held'[w] = NoMsg
       /\ wpc[w] = "dequeue" /\ wpc'[w] # "dequeue"
            => wpc'[w] = (IF cancelled[w] THEN "terminated" ELSE "brpop")
       /\ wpc[w] # "brpop" /\ wpc'[w] = "brpop" => wpc[w] = "dequeue"]_vars

C23_Witness ==
  \E w \in Solo :
    /\ wpc[w] = "dequeue"
    /\ cancelled[w]
    /\ redisUp
    /\ queue = <<>>
    /\ recs # <<>>

DequeueReturns(w) ==
  wpc[w] \in {"dequeue", "brpop"} /\ wpc'[w] \in {"process", "backoff", "terminated"}

C25_TimestampIsReceiptTime ==
  \A k \in DOMAIN recs : recs[k].line[1] = Format(recs[k].got)

\* C25 amended: the timestamp of a record is the time at which the
\* processing of its message completed: it is read after the processing
\* delay, when the record is formatted, so it is not earlier than the
\* receipt time and not later than the time of the append.
C25_TimestampIsProcessingEnd ==
  \A k \in DOMAIN recs :
    /\ recs[k].line[1] = Format(recs[k].done)
    /\ recs[k].got <= recs[k].done
    /\ recs[k].done <= recs[k].at
    /\ k \in DOMAIN sink => sink[k][1] = Format(recs[k].done)

C25_Witness ==
  \E k \in DOMAIN recs :
    /\ recs[k].got < recs[k].done
    /\ recs[k].done < recs[k].at
    /\ sink[k][1] = Format(recs[k].done)

\* C26: every accepted message is recorded at most once: for every payload
\* P the Result Sink never has more records of payload P than there were
\* accepted submissions of payload P, whatever the transport errors, crashes
\* and append failures of the run.
C26_RecordsAtMostAccepted ==
  \A P \in Payloads : CountSink(P) <= CountAccepted(P)

\* C27: a cooperative shutdown alone loses no message a worker holds: when
\* SIGTERM has reached a worker that holds a popped message (processing or
\* appending), and the worker is not killed and its append does not fail,
\* the record of that message is appended before the worker terminates; a
\* terminated worker holds nothing and every message Dequeue returned to it
\* is recorded.
C27_ShutdownKeepsHeldMessage ==
  /\ \A i \in 1..MaxSubs :
       (\E w \in Solo : cancelled[w] /\ held[w].id = i) ~> Recorded(i)
  /\ [](\A w \in Solo :
          wpc[w] = "terminated" =>
            /\ held[w] = NoMsg
            /\ \A k \in DOMAIN deliv : deliv[k].w = w => Recorded(deliv[k].id))

C27_Witness ==
  \E w \in Solo :
    /\ cancelled[w]
    /\ wpc[w] = "process"
    /\ held[w].id # 0
    /\ ~Recorded(held[w].id)

\* the lost messages: accepted, not in the queue, not recorded and not held
\* by a running worker
Lost == {i \in Subs : Accepted(i) /\ ~InQueue(i) /\ ~Recorded(i) /\ ~Held(i)}

\* C28: a termination of a worker loses at most one message.  The number of
\* lost messages is at most the number of terminations (SIGKILLs and
\* SIGTERMs) plus the number of failed appends: the SIGKILLs lost at most
\* one message each, the one in the worker's hands, and what was lost
\* otherwise are failed appends and at most one message per SIGTERM.
C28_LostAtMostTerminations ==
  /\ Cardinality(Lost) <= kills + signals + Cardinality(dropped)
  /\ Cardinality(killed) <= kills
  /\ Cardinality(Lost \ (killed \cup dropped)) <= signals
  /\ killed \cup dropped \subseteq Lost

C28_Witness ==
  /\ kills = 1
  /\ signals = 1
  /\ dropped = {}
  /\ Cardinality(killed) = 1
  /\ Cardinality(Lost) = 2

\* a text that is not empty and has no white space at either end
Trimmed(msg) ==
  /\ msg # <<>>
  /\ ~IsSpace(msg[1])
  /\ ~IsSpace(msg[Len(msg)])

\* C29: with all pushes coming from POST /enqueue, every entry of the queue
\* and every message Dequeue returned (held by a worker, or recorded) is
\* non-empty and has no leading or trailing white space.
C29_QueuedMessagesAreTrimmed ==
  /\ \A k \in DOMAIN queue : Trimmed(queue[k].msg)
  /\ \A w \in Workers : held[w].id # 0 => Trimmed(held[w].msg)
  /\ \A k \in DOMAIN recs : Trimmed(recs[k].msg)

C29_Witness ==
  /\ Len(queue) = 1
  /\ IsSpace(last.body[1])
  /\ IsSpace(last.body[Len(last.body)])
  /\ held[1].id = 1
  /\ queue[1].id = 2
  /\ queue[1].msg # last.body

\* C30: a submission with a structured content type whose body decodes but
\* whose message field is missing, empty or only white space is answered 400
\* and nothing is enqueued for it, although the trimmed body itself is not
\* empty.
C30_EmptyFieldRejected ==
  Len(subs) > 0 =>
    LET i == Len(subs) IN
    (/\ Structured(last.ctype)
     /\ Decodes(last.body)
     /\ \A k \in DOMAIN FieldOf(last.body) : IsSpace(FieldOf(last.body)[k]))
      => /\ subs[i].status = 400
         /\ subs[i].enq = "none"
         /\ ~InQueue(i)
         /\ Len(queue) = Cardinality({j \in Subs : subs[j].enq = "applied"})

C30_Witness ==
  /\ Len(subs) = 2
  /\ subs[1].status = 200
  /\ Structured(last.ctype)
  /\ Decodes(last.body)
  /\ FieldOf(last.body) = <<" ">>
  /\ IsSpace(last.body[1]) = FALSE
  /\ subs[2].status = 400
  /\ Len(queue) = 1

====
